---- MODULE Spec2Model ----
(***************************************************************************)
(* Admin dashboard of the portfolio site: draft order / current-role /    *)
(* batch-edit staging over the canonical collections delivered by the     *)
(* backend subscription, and the commit pipeline (Save / Reset).          *)
(*                                                                         *)
(* Source: apps/web/src/features/admin/components/AdminWorkspaceShell.tsx *)
(*         apps/web/src/features/admin/lib/ordering.ts                    *)
(*                                                                         *)
(* Ids are modelled as positive integers (the backend never reuses an id).*)
(* A nullable array (string[] | null) is NULL or Some(ids); the current-   *)
(* role id (string | null | undefined) is an id, NullId or UNDEFINED.      *)
(* A canonical update and the reconciliation effects it triggers are one  *)
(* step: the effects belong to the commit that delivered the new          *)
(* canonical data.                                                         *)
(***************************************************************************)
EXTENDS Integers, Sequences, FiniteSets, TLC

\* ------------------------------------------------------------------ bounds
MaxProjects == 3
MaxExperiences == 2
MaxOrder == 2
MaxPureIds == 3
MaxInFlight == 2
MaxTechnologies == 1
MaxTechEdits == 4
MaxOrderItems == 3
MaxOrderValue == 2

\* string[] | null
NULL == <<>>
Some(ids) == <<ids>>
Unwrap(draft) == draft[1]

\* toastTitle after a step that shows no toast
NoToast == "none"

\* string | null | undefined, ids being 1, 2, ...
NullId == 0
UNDEFINED == 0 - 1

VARIABLES
    pureDraft,                    \* argument draftIds of the pure call
    pureCanonical,                \* argument canonicalIds of the pure call
    pureResult,                   \* <<>> before the call, <<return value>> after it
    nextOrderItems,               \* argument items of the getNextOrder call (their order fields)
    nextOrderResult,              \* <<>> before the call, <<function called, return value>> after it
    projects,                     \* data.projects (bootstrap query result)
    createdProjects,              \* number of project ids the backend has issued
    projectDraftOrderIds,
    isSavingProjectOrder,
    projectInFlight,              \* reorderProjects calls awaiting their response
    experiences,                  \* data.experiences
    createdExperiences,
    experienceDraftOrderIds,
    experienceDraftCurrentRoleId,
    isSavingExperienceLayout,
    experienceInFlight,           \* reorderExperiences calls awaiting their response
    technologies,                 \* data.technologies
    createdTechnologies,
    techDraftItems,
    createdTempIds,               \* number of `temp-${crypto.randomUUID()}` ids generated
    techEdits,                    \* number of calls of the draft editing callbacks
    isSavingTechBatch,
    techInFlight,                 \* batchSaveTechnologies calls awaiting their response
    activeSectionId,
    toastTitle                    \* title of the toast the last step has shown

pureVars == <<pureDraft, pureCanonical, pureResult, nextOrderItems, nextOrderResult>>
projectVars == <<projects, createdProjects, projectDraftOrderIds, isSavingProjectOrder, projectInFlight>>
experienceVars == <<experiences, createdExperiences, experienceDraftOrderIds,
                    experienceDraftCurrentRoleId, isSavingExperienceLayout, experienceInFlight>>
techVars == <<technologies, createdTechnologies, techDraftItems, createdTempIds, techEdits,
              isSavingTechBatch, techInFlight>>
vars == <<pureVars, projectVars, experienceVars, techVars, activeSectionId, toastTitle>>

\* ------------------------------------------------------------ sequence helpers
SeqToSet(s) == {s[i] : i \in DOMAIN s}

IsDuplicateFree(s) == \A i, j \in DOMAIN s : s[i] = s[j] => i = j

\* all duplicate-free sequences over the set S
DuplicateFreeSeqs(S) ==
    UNION {{s \in [1..n -> S] : IsDuplicateFree(s)} : n \in 0..Cardinality(S)}

RemoveAt(s, i) == [k \in 1..(Len(s) - 1) |-> IF k < i THEN s[k] ELSE s[k + 1]]

InsertAt(s, i, x) == SubSeq(s, 1, i - 1) \o <<x>> \o SubSeq(s, i, Len(s))

\* arrayMove(array, from, to) of @dnd-kit/sortable (1-based here)
arrayMove(ids, oldIndex, newIndex) == InsertAt(RemoveAt(ids, oldIndex), newIndex, ids[oldIndex])

idsOf(items) == [i \in DOMAIN items |-> items[i].id]

\* ------------------------------------------------------------ ordering utilities
\* Array.prototype.sort with comparator left - right: ascending and stable
\* (insertion behind the items of smaller or equal order).
RECURSIVE sortPrefix(_, _)
sortPrefix(items, n) ==
    IF n = 0 THEN <<>>
    ELSE LET sorted == sortPrefix(items, n - 1)
             item == items[n]
             pos == Cardinality({k \in DOMAIN sorted : sorted[k].order <= item.order}) + 1
         IN InsertAt(sorted, pos, item)

sortByOrder(items) == sortPrefix(items, Len(items))

\* areSameIdOrder without the element loop
areSameIdOrderLengthOnly(left, right) == Len(left) = Len(right)

areSameIdOrder(left, right) ==
    IF Len(left) # Len(right) THEN FALSE
    ELSE \A index \in 1..Len(left) : left[index] = right[index]

\* the loop `for (const id of canonicalIds) if (!filteredSet.has(id)) filtered.push(id)`:
\* filteredSet is built before the loop, so the loop appends, in canonical
\* order, the canonical ids that set does not hold
pushMissing(filtered, filteredSet, canonicalIds) ==
    filtered \o SelectSeq(canonicalIds, LAMBDA id : id \notin filteredSet)

\* reconcileDraftOrder with the draft left unfiltered (stale ids kept)
reconcileDraftOrderKeepStale(draftIds, canonicalIds) ==
    IF draftIds = NULL THEN NULL
    ELSE Some(pushMissing(Unwrap(draftIds), SeqToSet(Unwrap(draftIds)), canonicalIds))

\* reconcileDraftOrder pushing every canonical id (the filteredSet test dropped)
reconcileDraftOrderPushAll(draftIds, canonicalIds) ==
    IF draftIds = NULL THEN NULL
    ELSE LET canonicalSet == SeqToSet(canonicalIds)
             filtered == SelectSeq(Unwrap(draftIds), LAMBDA id : id \in canonicalSet)
         IN Some(pushMissing(filtered, {}, canonicalIds))

\* reconcileDraftOrder putting the missing canonical ids in front (unshift for push)
reconcileDraftOrderMissingFirst(draftIds, canonicalIds) ==
    IF draftIds = NULL THEN NULL
    ELSE LET canonicalSet == SeqToSet(canonicalIds)
             filtered == SelectSeq(Unwrap(draftIds), LAMBDA id : id \in canonicalSet)
             filteredSet == SeqToSet(filtered)
         IN Some(pushMissing(<<>>, filteredSet, canonicalIds) \o filtered)

reconcileDraftOrder(draftIds, canonicalIds) ==
    IF draftIds = NULL THEN NULL
    ELSE LET canonicalSet == SeqToSet(canonicalIds)
             filtered == SelectSeq(Unwrap(draftIds), LAMBDA id : id \in canonicalSet)
             filteredSet == SeqToSet(filtered)
         IN Some(pushMissing(filtered, filteredSet, canonicalIds))

\* ------------------------------------------------------------ pure-call harness
PureIds == 1..MaxPureIds

CallReconcileDraftOrder ==
    /\ pureResult = <<>>
    /\ pureResult' = <<reconcileDraftOrder(pureDraft, pureCanonical)>>
    /\ toastTitle' = NoToast
    /\ UNCHANGED <<pureDraft, pureCanonical, nextOrderItems, nextOrderResult,
                   projectVars, experienceVars, activeSectionId, techVars>>

\* ------------------------------------------------------------ getNextOrder
\* item.order: a finite number, absent, or a number that is not finite
Finite(n) == [kind |-> "finite", value |-> n]
MissingOrder == [kind |-> "missing", value |-> 0]
NonFiniteOrder == [kind |-> "nonfinite", value |-> 0]

OrderValues ==
    {Finite(n) : n \in (0 - MaxOrderValue)..MaxOrderValue} \cup {MissingOrder, NonFiniteOrder}

\* all sequences over S of length at most n
RECURSIVE SeqsUpTo(_, _)
SeqsUpTo(S, n) ==
    IF n = 0 THEN {<<>>}
    ELSE LET shorter == SeqsUpTo(S, n - 1)
         IN shorter \cup {Append(prefix, x) : prefix \in {q \in shorter : Len(q) = n - 1}, x \in S}

\* ordering.ts: items.reduce((max, item) => finite && value > max ? value : max, 0) + 1,
\* value being Number(item.order ?? 0)
RECURSIVE reduceMaxOrder(_, _)
reduceMaxOrder(items, max) ==
    IF items = <<>> THEN max
    ELSE LET order == Head(items)
             value == IF order.kind = "missing" THEN 0 ELSE order.value
         IN reduceMaxOrder(Tail(items),
                           IF order.kind # "nonfinite" /\ value > max THEN value ELSE max)

getNextOrder(items) == reduceMaxOrder(items, 0) + 1

\* Math.max(...values)
RECURSIVE MathMax(_)
MathMax(values) ==
    IF Len(values) = 1 THEN values[1]
    ELSE LET rest == MathMax(Tail(values))
         IN IF Head(values) > rest THEN Head(values) ELSE rest

\* AdminWorkspaceShell.tsx: 1 for no items, else
\* Math.max(...items.map(finite value or 0)) + 1
getNextOrderOfShell(items) ==
    IF Len(items) = 0 THEN 1
    ELSE MathMax([i \in DOMAIN items |->
                     IF items[i].kind = "finite" THEN items[i].value ELSE 0]) + 1

CallGetNextOrder ==
    /\ nextOrderResult = <<>>
    /\ nextOrderResult' = <<"ordering.ts", getNextOrder(nextOrderItems)>>
    /\ toastTitle' = NoToast
    /\ UNCHANGED <<pureDraft, pureCanonical, pureResult, nextOrderItems,
                   projectVars, experienceVars, activeSectionId, techVars>>

CallGetNextOrderOfShell ==
    /\ nextOrderResult = <<>>
    /\ nextOrderResult' = <<"AdminWorkspaceShell.tsx", getNextOrderOfShell(nextOrderItems)>>
    /\ toastTitle' = NoToast
    /\ UNCHANGED <<pureDraft, pureCanonical, pureResult, nextOrderItems,
                   projectVars, experienceVars, activeSectionId, techVars>>

\* ------------------------------------------------------------ dashboard: derived values
ProjectIds == 1..MaxProjects
ExperienceIds == 1..MaxExperiences
Orders == 1..MaxOrder

sortedProjects == sortByOrder(projects)
canonicalProjectOrderIds == idsOf(sortedProjects)

\* `draftOrderIds ? !areSameIdOrder(draftOrderIds, canonicalOrderIds) : false`
hasOrderChanges(draftOrderIds, canonicalOrderIds) ==
    IF draftOrderIds = NULL THEN FALSE
    ELSE ~areSameIdOrder(Unwrap(draftOrderIds), canonicalOrderIds)

hasProjectOrderChanges == hasOrderChanges(projectDraftOrderIds, canonicalProjectOrderIds)

\* the effect comparing the stored draft with canonical without reconciling it
reconcileEffectUnreconciled(current, canonicalIds) ==
    IF current = NULL THEN NULL
    ELSE IF areSameIdOrder(Unwrap(current), canonicalIds) THEN NULL ELSE current

\* the effect without the collapse of a reconciled draft that equals canonical
reconcileEffectNoCollapse(current, canonicalIds) ==
    LET reconciled == reconcileDraftOrder(current, canonicalIds)
    IN IF reconciled = NULL THEN NULL
       ELSE IF current # NULL /\ areSameIdOrder(Unwrap(current), Unwrap(reconciled)) THEN current
       ELSE reconciled

\* body of the setState updater of the draft reconciliation effects
reconcileEffect(current, canonicalIds) ==
    LET reconciled == reconcileDraftOrder(current, canonicalIds)
    IN IF reconciled = NULL THEN NULL
       ELSE IF current # NULL /\ areSameIdOrder(Unwrap(current), Unwrap(reconciled)) THEN current
       ELSE IF areSameIdOrder(Unwrap(reconciled), canonicalIds) THEN NULL ELSE reconciled

\* the memo returning the canonical list whatever the draft holds
effectiveItemsIgnoresDraft(draftIds, sorted) == sorted

\* ids.map(id => byId.get(id)).filter(Boolean) followed by the append of the
\* canonical items the draft does not list
effectiveItems(draftIds, sorted) ==
    IF draftIds = NULL \/ Len(Unwrap(draftIds)) = 0 THEN sorted
    ELSE LET known == SeqToSet(idsOf(sorted))
             byId(id) == sorted[CHOOSE k \in DOMAIN sorted : sorted[k].id = id]
             kept == SelectSeq(Unwrap(draftIds), LAMBDA id : id \in known)
             ordered == [i \in DOMAIN kept |-> byId(kept[i])]
         IN IF Len(ordered) # Len(sorted)
            THEN ordered \o SelectSeq(sorted, LAMBDA item : item.id \notin SeqToSet(kept))
            ELSE ordered

effectiveProjectItems == effectiveItems(projectDraftOrderIds, sortedProjects)

sortedExperiences == sortByOrder(experiences)
canonicalExperienceOrderIds == idsOf(sortedExperiences)

\* first item of the sorted list with isCurrent === true, else null
currentIdOf(sorted) ==
    IF \E k \in DOMAIN sorted : sorted[k].isCurrent
    THEN sorted[CHOOSE k \in DOMAIN sorted :
                    /\ sorted[k].isCurrent
                    /\ \A j \in 1..(k - 1) : ~sorted[j].isCurrent].id
    ELSE NullId

canonicalCurrentExperienceId == currentIdOf(sortedExperiences)

hasExperienceOrderChanges ==
    hasOrderChanges(experienceDraftOrderIds, canonicalExperienceOrderIds)

\* `draftCurrentRoleId !== undefined && draftCurrentRoleId !== canonicalCurrentId`
hasCurrentRoleChanges(draftCurrentRoleId, canonicalCurrentId) ==
    /\ draftCurrentRoleId # UNDEFINED
    /\ draftCurrentRoleId # canonicalCurrentId

hasExperienceCurrentRoleChanges ==
    hasCurrentRoleChanges(experienceDraftCurrentRoleId, canonicalCurrentExperienceId)

hasExperienceChanges == hasExperienceOrderChanges \/ hasExperienceCurrentRoleChanges

effectiveCurrentExperienceId ==
    IF experienceDraftCurrentRoleId = UNDEFINED
    THEN canonicalCurrentExperienceId
    ELSE experienceDraftCurrentRoleId

effectiveExperienceItems == effectiveItems(experienceDraftOrderIds, sortedExperiences)

\* the updater without its check that the held id still exists
reconcileCurrentRoleEffectKeepsMissing(current, canonicalCurrentId, knownIds) ==
    IF current = UNDEFINED THEN UNDEFINED
    ELSE IF current = canonicalCurrentId THEN UNDEFINED
    ELSE current

\* body of the setState updater of the draft current-role reconciliation effect
reconcileCurrentRoleEffect(current, canonicalCurrentId, knownIds) ==
    IF current = UNDEFINED THEN UNDEFINED
    ELSE IF current = canonicalCurrentId THEN UNDEFINED
    ELSE IF current # NullId /\ current \notin knownIds THEN UNDEFINED
    ELSE current

\* ------------------------------------------------------------ dashboard: initial state
DashboardIdle ==
    /\ projects = <<>>
    /\ createdProjects = 0
    /\ projectDraftOrderIds = NULL
    /\ isSavingProjectOrder = FALSE
    /\ projectInFlight = <<>>
    /\ experiences = <<>>
    /\ createdExperiences = 0
    /\ experienceDraftOrderIds = NULL
    /\ experienceDraftCurrentRoleId = UNDEFINED
    /\ isSavingExperienceLayout = FALSE
    /\ experienceInFlight = <<>>
    /\ technologies = <<>>
    /\ createdTechnologies = 0
    /\ techDraftItems = NULL
    /\ createdTempIds = 0
    /\ techEdits = 0
    /\ isSavingTechBatch = FALSE
    /\ techInFlight = <<>>
    /\ activeSectionId = "site-settings"
    /\ toastTitle = NoToast

\* ------------------------------------------------------------ projects: canonical updates
\* A new data.projects arrives from the subscription; the project draft
\* reconciliation effect runs against the new canonical id order.
ProjectsRefresh(next) ==
    /\ projects' = next
    /\ projectDraftOrderIds' = reconcileEffect(projectDraftOrderIds, idsOf(sortByOrder(next)))
    /\ toastTitle' = NoToast
    /\ UNCHANGED <<isSavingProjectOrder, projectInFlight, pureVars, experienceVars,
                   activeSectionId, techVars>>

ProjectCreated ==
    /\ createdProjects < MaxProjects
    /\ \E order \in Orders :
          ProjectsRefresh(Append(projects, [id |-> createdProjects + 1, order |-> order]))
    /\ createdProjects' = createdProjects + 1

ProjectDeleted ==
    /\ \E id \in SeqToSet(idsOf(projects)) :
          ProjectsRefresh(SelectSeq(projects, LAMBDA item : item.id # id))
    /\ UNCHANGED createdProjects

\* A write changes the order of one project document.  The project effect
\* leaves a draft alone while the canonical id set is unchanged, so writes
\* that renumber several documents reach the same states step by step.
ProjectUpdated ==
    /\ \E i \in DOMAIN projects, order \in Orders :
          /\ order # projects[i].order
          /\ ProjectsRefresh([projects EXCEPT ![i].order = order])
    /\ UNCHANGED createdProjects

\* ------------------------------------------------------------ projects: user actions
ProjectToolbarRendered ==
    /\ activeSectionId = "projects"
    /\ Len(effectiveProjectItems) # 0

\* SortableProjectGrid.onDragEnd -> handleProjectReorder
HandleProjectReorder ==
    /\ ProjectToolbarRendered
    /\ LET ids == idsOf(effectiveProjectItems)
       IN \E oldIndex, newIndex \in DOMAIN ids :
             /\ oldIndex # newIndex
             /\ projectDraftOrderIds' = Some(arrayMove(ids, oldIndex, newIndex))
    /\ toastTitle' = NoToast
    /\ UNCHANGED <<projects, createdProjects, isSavingProjectOrder, projectInFlight,
                   pureVars, experienceVars, activeSectionId, techVars>>

\* the disabled attribute without its isSaving test
ProjectSaveDisabledIgnoresSaving == ~hasProjectOrderChanges

\* disabled={isSaving || !hasChanges} of the Save and Reset buttons
ProjectSaveDisabled == isSavingProjectOrder \/ ~hasProjectOrderChanges

\* the payload numbered from 0 (index instead of index + 1)
projectPayloadZeroBased(draftIds) ==
    [index \in DOMAIN draftIds |-> [id |-> draftIds[index], order |-> index - 1]]

projectPayload(draftIds) == [index \in DOMAIN draftIds |-> [id |-> draftIds[index], order |-> index]]

saveProjectOrder ==
    IF ~hasProjectOrderChanges \/ projectDraftOrderIds = NULL
    THEN UNCHANGED vars
    ELSE /\ isSavingProjectOrder' = TRUE
         /\ projectInFlight' = Append(projectInFlight, [items |-> projectPayload(Unwrap(projectDraftOrderIds))])
         /\ toastTitle' = NoToast
         /\ UNCHANGED <<projects, createdProjects, projectDraftOrderIds,
                        pureVars, experienceVars, activeSectionId, techVars>>

ClickSaveProjectOrder ==
    /\ ProjectToolbarRendered
    /\ ~ProjectSaveDisabled
    /\ Len(projectInFlight) < MaxInFlight
    /\ saveProjectOrder

resetProjectOrderDraft ==
    /\ projectDraftOrderIds' = NULL
    /\ toastTitle' = NoToast
    /\ UNCHANGED <<projects, createdProjects, isSavingProjectOrder, projectInFlight,
                   pureVars, experienceVars, activeSectionId, techVars>>

ClickResetProjectOrder ==
    /\ ProjectToolbarRendered
    /\ ~ProjectSaveDisabled
    /\ resetProjectOrderDraft

\* ------------------------------------------------------------ projects: commit completion
\* the code after `await reorderProjects(...)`: try body, catch, finally
\* the success path without setProjectDraftOrderIds(null)
ProjectOrderSavedKeepsDraft(i) ==
    /\ i \in DOMAIN projectInFlight
    /\ projectInFlight' = RemoveAt(projectInFlight, i)
    /\ toastTitle' = "Project order saved"
    /\ isSavingProjectOrder' = FALSE
    /\ UNCHANGED <<projects, createdProjects, projectDraftOrderIds, pureVars, experienceVars,
                   activeSectionId, techVars>>

ProjectOrderSaved(i) ==
    /\ i \in DOMAIN projectInFlight
    /\ projectInFlight' = RemoveAt(projectInFlight, i)
    /\ projectDraftOrderIds' = NULL
    /\ toastTitle' = "Project order saved"
    /\ isSavingProjectOrder' = FALSE
    /\ UNCHANGED <<projects, createdProjects, pureVars, experienceVars, activeSectionId, techVars>>

\* the draft cleared in the finally block instead of the try body
ProjectOrderSaveFailedClearsDraft(i) ==
    /\ i \in DOMAIN projectInFlight
    /\ projectInFlight' = RemoveAt(projectInFlight, i)
    /\ projectDraftOrderIds' = NULL
    /\ toastTitle' = "Unable to save project order"
    /\ isSavingProjectOrder' = FALSE
    /\ UNCHANGED <<projects, createdProjects, pureVars, experienceVars, activeSectionId, techVars>>

ProjectOrderSaveFailed(i) ==
    /\ i \in DOMAIN projectInFlight
    /\ projectInFlight' = RemoveAt(projectInFlight, i)
    /\ toastTitle' = "Unable to save project order"
    /\ isSavingProjectOrder' = FALSE
    /\ UNCHANGED <<projects, createdProjects, projectDraftOrderIds, pureVars, experienceVars,
                   activeSectionId, techVars>>

ResolveProjectOrderSuccess == \E i \in DOMAIN projectInFlight : ProjectOrderSaved(i)

ResolveProjectOrderFailure == \E i \in DOMAIN projectInFlight : ProjectOrderSaveFailed(i)

\* ------------------------------------------------------------ experiences: canonical updates
\* A new data.experiences arrives; the order and current-role reconciliation
\* effects run against it.
ExperiencesRefresh(next) ==
    /\ experiences' = next
    /\ experienceDraftOrderIds' = reconcileEffect(experienceDraftOrderIds, idsOf(sortByOrder(next)))
    /\ experienceDraftCurrentRoleId' =
          reconcileCurrentRoleEffect(experienceDraftCurrentRoleId, currentIdOf(sortByOrder(next)),
                                     SeqToSet(idsOf(next)))
    /\ toastTitle' = NoToast
    /\ UNCHANGED <<isSavingExperienceLayout, experienceInFlight, pureVars, projectVars,
                   activeSectionId, techVars>>

ExperienceCreated ==
    /\ createdExperiences < MaxExperiences
    /\ \E order \in Orders, isCurrent \in BOOLEAN :
          ExperiencesRefresh(Append(experiences, [id |-> createdExperiences + 1, order |-> order,
                                                  isCurrent |-> isCurrent]))
    /\ createdExperiences' = createdExperiences + 1

ExperienceDeleted ==
    /\ \E id \in SeqToSet(idsOf(experiences)) :
          ExperiencesRefresh(SelectSeq(experiences, LAMBDA item : item.id # id))
    /\ UNCHANGED createdExperiences

\* A write changes the order or the isCurrent flag of one experience document.
ExperienceUpdated ==
    /\ \E i \in DOMAIN experiences, order \in Orders, isCurrent \in BOOLEAN :
          /\ <<order, isCurrent>> # <<experiences[i].order, experiences[i].isCurrent>>
          /\ ExperiencesRefresh([experiences EXCEPT ![i].order = order, ![i].isCurrent = isCurrent])
    /\ UNCHANGED createdExperiences

\* A write moves the isCurrent flag in one transaction: exactly the chosen
\* document (or none, for NullId) is current afterwards.
CurrentExperienceSwitched ==
    /\ \E currentId \in SeqToSet(idsOf(experiences)) \cup {NullId} :
          LET next == [i \in DOMAIN experiences |->
                          [experiences[i] EXCEPT !.isCurrent = (experiences[i].id = currentId)]]
          IN /\ next # experiences
             /\ ExperiencesRefresh(next)
    /\ UNCHANGED createdExperiences

\* ------------------------------------------------------------ experiences: user actions
ExperienceToolbarRendered ==
    /\ activeSectionId = "experiences"
    /\ Len(effectiveExperienceItems) # 0

\* SortableExperienceGrid.onDragEnd -> handleExperienceReorder
HandleExperienceReorder ==
    /\ ExperienceToolbarRendered
    /\ LET ids == idsOf(effectiveExperienceItems)
       IN \E oldIndex, newIndex \in DOMAIN ids :
             /\ oldIndex # newIndex
             /\ experienceDraftOrderIds' = Some(arrayMove(ids, oldIndex, newIndex))
    /\ toastTitle' = NoToast
    /\ UNCHANGED <<experiences, createdExperiences, experienceDraftCurrentRoleId,
                   isSavingExperienceLayout, experienceInFlight,
                   pureVars, projectVars, activeSectionId, techVars>>

\* handleExperienceCurrentRoleChange storing the selected value as it is
handleExperienceCurrentRoleChangeUnnormalized(nextCurrentRoleId) ==
    /\ experienceDraftCurrentRoleId' = nextCurrentRoleId
    /\ toastTitle' = NoToast
    /\ UNCHANGED <<experiences, createdExperiences, experienceDraftOrderIds,
                   isSavingExperienceLayout, experienceInFlight,
                   pureVars, projectVars, activeSectionId, techVars>>

handleExperienceCurrentRoleChange(nextCurrentRoleId) ==
    /\ experienceDraftCurrentRoleId' =
          IF nextCurrentRoleId = canonicalCurrentExperienceId THEN UNDEFINED ELSE nextCurrentRoleId
    /\ toastTitle' = NoToast
    /\ UNCHANGED <<experiences, createdExperiences, experienceDraftOrderIds,
                   isSavingExperienceLayout, experienceInFlight,
                   pureVars, projectVars, activeSectionId, techVars>>

\* the "Current role" select: option None and one option per sorted experience,
\* disabled while saving
SelectCurrentRole ==
    /\ ExperienceToolbarRendered
    /\ ~isSavingExperienceLayout
    /\ \E nextCurrentRoleId \in {NullId} \cup SeqToSet(idsOf(sortedExperiences)) :
          handleExperienceCurrentRoleChange(nextCurrentRoleId)

ExperienceSaveDisabled == isSavingExperienceLayout \/ ~hasExperienceChanges

experiencePayload(items) == [index \in DOMAIN items |-> [id |-> items[index].id, order |-> index]]

\* saveExperienceLayout sending the canonical current id instead of the effective one
saveExperienceLayoutIgnoresDraftFlag ==
    IF ~hasExperienceChanges
    THEN UNCHANGED vars
    ELSE /\ isSavingExperienceLayout' = TRUE
         /\ experienceInFlight' =
               Append(experienceInFlight,
                      [items |-> experiencePayload(effectiveExperienceItems),
                       currentExperienceId |-> canonicalCurrentExperienceId])
         /\ toastTitle' = NoToast
         /\ UNCHANGED <<experiences, createdExperiences, experienceDraftOrderIds,
                        experienceDraftCurrentRoleId, pureVars, projectVars, activeSectionId, techVars>>

saveExperienceLayout ==
    IF ~hasExperienceChanges
    THEN UNCHANGED vars
    ELSE /\ isSavingExperienceLayout' = TRUE
         /\ experienceInFlight' =
               Append(experienceInFlight,
                      [items |-> experiencePayload(effectiveExperienceItems),
                       currentExperienceId |-> effectiveCurrentExperienceId])
         /\ toastTitle' = NoToast
         /\ UNCHANGED <<experiences, createdExperiences, experienceDraftOrderIds,
                        experienceDraftCurrentRoleId, pureVars, projectVars, activeSectionId, techVars>>

ClickSaveExperienceLayout ==
    /\ ExperienceToolbarRendered
    /\ ~ExperienceSaveDisabled
    /\ Len(experienceInFlight) < MaxInFlight
    /\ saveExperienceLayout

\* resetExperienceLayoutDraft without setExperienceDraftCurrentRoleId(undefined)
resetExperienceLayoutDraftKeepsFlag ==
    /\ experienceDraftOrderIds' = NULL
    /\ toastTitle' = NoToast
    /\ UNCHANGED <<experiences, createdExperiences, experienceDraftCurrentRoleId,
                   isSavingExperienceLayout, experienceInFlight,
                   pureVars, projectVars, activeSectionId, techVars>>

resetExperienceLayoutDraft ==
    /\ experienceDraftOrderIds' = NULL
    /\ experienceDraftCurrentRoleId' = UNDEFINED
    /\ toastTitle' = NoToast
    /\ UNCHANGED <<experiences, createdExperiences, isSavingExperienceLayout, experienceInFlight,
                   pureVars, projectVars, activeSectionId, techVars>>

ClickResetExperienceLayout ==
    /\ ExperienceToolbarRendered
    /\ ~ExperienceSaveDisabled
    /\ resetExperienceLayoutDraft

\* ------------------------------------------------------------ experiences: commit completion
ExperienceLayoutSaved(i) ==
    /\ i \in DOMAIN experienceInFlight
    /\ experienceInFlight' = RemoveAt(experienceInFlight, i)
    /\ experienceDraftOrderIds' = NULL
    /\ experienceDraftCurrentRoleId' = UNDEFINED
    /\ toastTitle' = "Experience layout saved"
    /\ isSavingExperienceLayout' = FALSE
    /\ UNCHANGED <<experiences, createdExperiences, pureVars, projectVars, activeSectionId, techVars>>

ExperienceLayoutSaveFailed(i) ==
    /\ i \in DOMAIN experienceInFlight
    /\ experienceInFlight' = RemoveAt(experienceInFlight, i)
    /\ toastTitle' = "Unable to save experience layout"
    /\ isSavingExperienceLayout' = FALSE
    /\ UNCHANGED <<experiences, createdExperiences, experienceDraftOrderIds,
                   experienceDraftCurrentRoleId, pureVars, projectVars, activeSectionId, techVars>>

ResolveExperienceLayoutSuccess == \E i \in DOMAIN experienceInFlight : ExperienceLayoutSaved(i)

ResolveExperienceLayoutFailure == \E i \in DOMAIN experienceInFlight : ExperienceLayoutSaveFailed(i)

\* ------------------------------------------------------------ technologies: derived values
\* the texts the model types into a name or category input and stores in
\* documents; description, iconName and iconUrl stay ''
TechNames == {"", " ", "React"}
TechCategories == {"", "Frontend", "Backend"}

\* String.prototype.trim on these texts
trim(text) == IF text = " " THEN "" ELSE text

\* `value || undefined` of the request fields
NoText == "undefined"
orUndefined(text) == IF text = "" THEN NoText ELSE text

\* `temp-${crypto.randomUUID()}`: temporary ids are the negative integers
tempId(n) == 0 - n

\* itemId.startsWith('temp-')
IsTempId(itemId) == itemId < 0

sortedTechnologies == sortByOrder(technologies)

\* a missing _isNew, _isDeleted or _isExpanded reads as FALSE
canonicalTechItems ==
    [i \in DOMAIN sortedTechnologies |->
        [_id |-> sortedTechnologies[i]._id,
         name |-> sortedTechnologies[i].name,
         category |-> sortedTechnologies[i].category,
         description |-> sortedTechnologies[i].description,
         iconName |-> sortedTechnologies[i].iconName,
         iconUrl |-> sortedTechnologies[i].iconUrl,
         order |-> sortedTechnologies[i].order,
         _isNew |-> FALSE, _isDeleted |-> FALSE, _isExpanded |-> FALSE]]

effectiveTechItems ==
    SelectSeq(IF techDraftItems = NULL THEN canonicalTechItems ELSE Unwrap(techDraftItems),
              LAMBDA item : ~item._isDeleted)

techFieldsDiffer(item, orig) ==
    \/ item.name # orig.name
    \/ item.category # orig.category
    \/ item.description # orig.description
    \/ item.iconName # orig.iconName
    \/ item.iconUrl # orig.iconUrl
    \/ item.order # orig.order

canonicalMapHas(itemId) == \E k \in DOMAIN canonicalTechItems : canonicalTechItems[k]._id = itemId

canonicalMapGet(itemId) ==
    canonicalTechItems[CHOOSE k \in DOMAIN canonicalTechItems : canonicalTechItems[k]._id = itemId]

hasTechChanges ==
    IF techDraftItems = NULL THEN FALSE
    ELSE LET draft == Unwrap(techDraftItems)
         IN \/ \E i \in DOMAIN draft : draft[i]._isNew \/ draft[i]._isDeleted
            \/ \E i \in DOMAIN draft :
                  /\ ~(draft[i]._isNew \/ draft[i]._isDeleted)
                  /\ \/ ~canonicalMapHas(draft[i]._id)
                     \/ techFieldsDiffer(draft[i], canonicalMapGet(draft[i]._id))

\* `current ?? canonicalTechItems.map((item) => ({ ...item }))`
ensureTechDraft(current) == IF current = NULL THEN canonicalTechItems ELSE Unwrap(current)

\* ------------------------------------------------------------ technologies: canonical updates
\* No effect reconciles techDraftItems with data.technologies.
TechnologiesRefresh(next) ==
    /\ technologies' = next
    /\ toastTitle' = NoToast
    /\ UNCHANGED <<techDraftItems, createdTempIds, techEdits, isSavingTechBatch, techInFlight,
                   pureVars, projectVars, experienceVars, activeSectionId>>

TechnologyCreated ==
    /\ createdTechnologies < MaxTechnologies
    /\ \E order \in Orders :
          TechnologiesRefresh(Append(technologies,
              [_id |-> createdTechnologies + 1, name |-> "React", category |-> "Frontend",
               description |-> "", iconName |-> "", iconUrl |-> "", order |-> order]))
    /\ createdTechnologies' = createdTechnologies + 1

TechnologyDeleted ==
    /\ \E i \in DOMAIN technologies : TechnologiesRefresh(RemoveAt(technologies, i))
    /\ UNCHANGED createdTechnologies

\* A write changes the order of one technology document.
TechnologyUpdated ==
    /\ \E i \in DOMAIN technologies, order \in Orders :
          /\ order # technologies[i].order
          /\ TechnologiesRefresh([technologies EXCEPT ![i].order = order])
    /\ UNCHANGED createdTechnologies

\* ------------------------------------------------------------ technologies: draft editing
TechSectionRendered == activeSectionId = "technologies"

\* the ids of the cards rendered: effectiveTechItems.map(...)
RenderedTechIds == {effectiveTechItems[i]._id : i \in DOMAIN effectiveTechItems}

RenderedTechItem(itemId) ==
    effectiveTechItems[CHOOSE i \in DOMAIN effectiveTechItems : effectiveTechItems[i]._id = itemId]

\* prev.map((item) => (item._id === itemId ? { ...item, [field]: value } : item))
setTechField(items, itemId, field, value) ==
    [i \in DOMAIN items |->
        IF items[i]._id = itemId THEN [items[i] EXCEPT ![field] = value] ELSE items[i]]

\* `Number(e.target.value) || 0` of the Display Order input, which has no
\* minimum: a positive order, 0 for a cleared input, or a negative number
TechOrderInputs == Orders \cup {0, 0 - 1}

\* what the model enters into the input of a field
TechFieldValues(field) ==
    CASE field = "name" -> TechNames
      [] field = "category" -> TechCategories
      [] field = "order" -> TechOrderInputs

TechDraftEdited(next) ==
    /\ techEdits < MaxTechEdits
    /\ techEdits' = techEdits + 1
    /\ techDraftItems' = Some(next)
    /\ toastTitle' = NoToast
    /\ UNCHANGED <<technologies, createdTechnologies, isSavingTechBatch, techInFlight,
                   pureVars, projectVars, experienceVars, activeSectionId>>

\* the inputs of an expanded card -> onFieldChange
updateTechField ==
    /\ TechSectionRendered
    /\ \E itemId \in RenderedTechIds, field \in {"name", "category", "order"} :
          /\ RenderedTechItem(itemId)._isExpanded
          /\ \E value \in TechFieldValues(field) :
                /\ value # RenderedTechItem(itemId)[field]
                /\ TechDraftEdited(setTechField(ensureTechDraft(techDraftItems), itemId, field, value))
    /\ UNCHANGED createdTempIds

toggleTechExpand ==
    /\ TechSectionRendered
    /\ \E itemId \in RenderedTechIds :
          TechDraftEdited(setTechField(ensureTechDraft(techDraftItems), itemId, "_isExpanded",
                                       ~RenderedTechItem(itemId)._isExpanded))
    /\ UNCHANGED createdTempIds

RECURSIVE maxOrder(_)
maxOrder(items) ==
    IF items = <<>> THEN 0
    ELSE LET rest == maxOrder(Tail(items))
         IN IF Head(items).order > rest THEN Head(items).order ELSE rest

\* addTechDraftItem appending to a fresh copy of canonical instead of `prev`
addTechDraftItemRematerializes ==
    /\ createdTempIds' = createdTempIds + 1
    /\ LET items == canonicalTechItems
       IN TechDraftEdited(Append(items,
              [_id |-> tempId(createdTempIds + 1), name |-> "", category |-> "",
               description |-> "", iconName |-> "", iconUrl |-> "",
               order |-> maxOrder(items) + 1,
               _isNew |-> TRUE, _isDeleted |-> FALSE, _isExpanded |-> TRUE]))

\* addTechDraftItem giving every new row the same temporary id
addTechDraftItemReusesTempId ==
    /\ createdTempIds' = createdTempIds + 1
    /\ LET items == ensureTechDraft(techDraftItems)
       IN TechDraftEdited(Append(items,
              [_id |-> tempId(1), name |-> "", category |-> "",
               description |-> "", iconName |-> "", iconUrl |-> "",
               order |-> maxOrder(items) + 1,
               _isNew |-> TRUE, _isDeleted |-> FALSE, _isExpanded |-> TRUE]))

addTechDraftItem ==
    /\ createdTempIds' = createdTempIds + 1
    /\ LET items == ensureTechDraft(techDraftItems)
       IN TechDraftEdited(Append(items,
              [_id |-> tempId(createdTempIds + 1), name |-> "", category |-> "",
               description |-> "", iconName |-> "", iconUrl |-> "",
               order |-> maxOrder(items) + 1,
               _isNew |-> TRUE, _isDeleted |-> FALSE, _isExpanded |-> TRUE]))

\* "Add Technology" of the toolbar: disabled={isSaving}
ClickAddTechnology ==
    /\ TechSectionRendered
    /\ ~isSavingTechBatch
    /\ addTechDraftItem

\* "Create Item" of the shell header and of the empty state: onCreateItem
ClickCreateItem ==
    /\ TechSectionRendered
    /\ addTechDraftItem

\* deleteTechDraftItem without its `temp-` branch: every row is marked
deleteTechDraftItemMarksNewRows ==
    /\ TechSectionRendered
    /\ \E itemId \in RenderedTechIds :
          TechDraftEdited(setTechField(ensureTechDraft(techDraftItems), itemId, "_isDeleted", TRUE))
    /\ UNCHANGED createdTempIds

deleteTechDraftItem ==
    /\ TechSectionRendered
    /\ \E itemId \in RenderedTechIds :
          LET items == ensureTechDraft(techDraftItems)
          IN IF IsTempId(itemId)
             THEN TechDraftEdited(SelectSeq(items, LAMBDA item : item._id # itemId))
             ELSE TechDraftEdited(setTechField(items, itemId, "_isDeleted", TRUE))
    /\ UNCHANGED createdTempIds

resetTechDraft ==
    /\ techDraftItems' = NULL
    /\ toastTitle' = NoToast
    /\ UNCHANGED <<technologies, createdTechnologies, createdTempIds, techEdits,
                   isSavingTechBatch, techInFlight,
                   pureVars, projectVars, experienceVars, activeSectionId>>

\* disabled={isSaving || !hasChanges} of Cancel and Save All
TechSaveDisabled == isSavingTechBatch \/ ~hasTechChanges

ClickCancelTechBatch ==
    /\ TechSectionRendered
    /\ ~TechSaveDisabled
    /\ resetTechDraft

\* ------------------------------------------------------------ technologies: commit
\* the validation loop without its category check
techValidationFailsIgnoresCategory(items) ==
    \E i \in DOMAIN items : ~items[i]._isDeleted /\ trim(items[i].name) = ""

techValidationFails(items) ==
    \E i \in DOMAIN items :
       /\ ~items[i]._isDeleted
       /\ (trim(items[i].name) = "" \/ trim(items[i].category) = "")

techRequestFields(item) ==
    [name |-> trim(item.name), category |-> item.category,
     description |-> orUndefined(trim(item.description)),
     iconName |-> orUndefined(item.iconName), iconUrl |-> orUndefined(item.iconUrl),
     order |-> item.order]

techCreates(items) ==
    LET rows == SelectSeq(items, LAMBDA item : item._isNew /\ ~item._isDeleted)
    IN [i \in DOMAIN rows |-> techRequestFields(rows[i])]

\* techUpdates without its second filter, the field comparison
techUpdatesSendsUnchanged(items) ==
    LET rows == SelectSeq(items, LAMBDA item :
                    ~item._isNew /\ ~item._isDeleted /\ canonicalMapHas(item._id))
    IN [i \in DOMAIN rows |-> [id |-> rows[i]._id, fields |-> techRequestFields(rows[i])]]

\* techUpdates without the `!item._isDeleted` of its filter
techUpdatesIncludesDeleted(items) ==
    LET rows == SelectSeq(items, LAMBDA item :
                    /\ ~item._isNew /\ canonicalMapHas(item._id)
                    /\ techFieldsDiffer(item, canonicalMapGet(item._id)))
    IN [i \in DOMAIN rows |-> [id |-> rows[i]._id, fields |-> techRequestFields(rows[i])]]

techUpdates(items) ==
    LET rows == SelectSeq(items, LAMBDA item :
                    /\ ~item._isNew /\ ~item._isDeleted /\ canonicalMapHas(item._id)
                    /\ techFieldsDiffer(item, canonicalMapGet(item._id)))
    IN [i \in DOMAIN rows |-> [id |-> rows[i]._id, fields |-> techRequestFields(rows[i])]]

techDeletes(items) ==
    LET rows == SelectSeq(items, LAMBDA item : item._isDeleted /\ ~item._isNew)
    IN [i \in DOMAIN rows |-> rows[i]._id]

saveTechBatch ==
    IF techDraftItems = NULL \/ ~hasTechChanges
    THEN UNCHANGED vars
    ELSE IF techValidationFails(Unwrap(techDraftItems))
    THEN /\ toastTitle' = "Validation error"
         /\ UNCHANGED <<techVars, pureVars, projectVars, experienceVars, activeSectionId>>
    ELSE /\ isSavingTechBatch' = TRUE
         /\ techInFlight' = Append(techInFlight,
                                   [creates |-> techCreates(Unwrap(techDraftItems)),
                                    updates |-> techUpdates(Unwrap(techDraftItems)),
                                    deletes |-> techDeletes(Unwrap(techDraftItems))])
         /\ toastTitle' = NoToast
         /\ UNCHANGED <<technologies, createdTechnologies, techDraftItems, createdTempIds,
                        techEdits, pureVars, projectVars, experienceVars, activeSectionId>>

ClickSaveTechBatch ==
    /\ TechSectionRendered
    /\ ~TechSaveDisabled
    /\ Len(techInFlight) < MaxInFlight
    /\ saveTechBatch

\* the catch path without the `finally` that resets isSavingTechBatch
TechBatchSaveFailedStaysSaving(i) ==
    /\ i \in DOMAIN techInFlight
    /\ techInFlight' = RemoveAt(techInFlight, i)
    /\ toastTitle' = "Save failed"
    /\ UNCHANGED <<technologies, createdTechnologies, techDraftItems, createdTempIds, techEdits,
                   isSavingTechBatch, pureVars, projectVars, experienceVars, activeSectionId>>

\* the code after `await batchSaveTechnologies(...)`: try body, catch, finally
TechBatchSaved(i) ==
    /\ i \in DOMAIN techInFlight
    /\ techInFlight' = RemoveAt(techInFlight, i)
    /\ techDraftItems' = NULL
    /\ toastTitle' = "Technologies saved"
    /\ isSavingTechBatch' = FALSE
    /\ UNCHANGED <<technologies, createdTechnologies, createdTempIds, techEdits,
                   pureVars, projectVars, experienceVars, activeSectionId>>

\* the catch path with the setTechDraftItems(null) of the try body
TechBatchSaveFailedClearsDraft(i) ==
    /\ i \in DOMAIN techInFlight
    /\ techInFlight' = RemoveAt(techInFlight, i)
    /\ techDraftItems' = NULL
    /\ toastTitle' = "Save failed"
    /\ isSavingTechBatch' = FALSE
    /\ UNCHANGED <<technologies, createdTechnologies, createdTempIds, techEdits,
                   pureVars, projectVars, experienceVars, activeSectionId>>

TechBatchSaveFailed(i) ==
    /\ i \in DOMAIN techInFlight
    /\ techInFlight' = RemoveAt(techInFlight, i)
    /\ toastTitle' = "Save failed"
    /\ isSavingTechBatch' = FALSE
    /\ UNCHANGED <<technologies, createdTechnologies, techDraftItems, createdTempIds, techEdits,
                   pureVars, projectVars, experienceVars, activeSectionId>>

ResolveTechBatchSuccess == \E i \in DOMAIN techInFlight : TechBatchSaved(i)

ResolveTechBatchFailure == \E i \in DOMAIN techInFlight : TechBatchSaveFailed(i)

\* ------------------------------------------------------------ navigation
\* onSectionChange going on whatever window.confirm returns
onSectionChangeIgnoresAnswer(nextId, confirmed) ==
    /\ activeSectionId' = nextId
    /\ techDraftItems' = IF hasTechChanges THEN NULL ELSE techDraftItems
    /\ toastTitle' = NoToast
    /\ UNCHANGED <<technologies, createdTechnologies, createdTempIds, techEdits,
                   isSavingTechBatch, techInFlight,
                   pureVars, projectVars, experienceVars>>

\* `confirmed` is what window.confirm returns when it is asked
onSectionChange(nextId, confirmed) ==
    IF hasTechChanges /\ ~confirmed
    THEN UNCHANGED vars
    ELSE /\ activeSectionId' = nextId
         /\ techDraftItems' = IF hasTechChanges THEN NULL ELSE techDraftItems
         /\ toastTitle' = NoToast
         /\ UNCHANGED <<technologies, createdTechnologies, createdTempIds, techEdits,
                        isSavingTechBatch, techInFlight,
                        pureVars, projectVars, experienceVars>>

\* a tab of the shell is clicked
SectionTabClicked(nextId) ==
    \E confirmed \in (IF hasTechChanges THEN BOOLEAN ELSE {TRUE}) : onSectionChange(nextId, confirmed)

\* ------------------------------------------------------------ specifications
PureNext == CallReconcileDraftOrder

InitPure ==
    /\ pureDraft \in {NULL} \cup {Some(ids) : ids \in DuplicateFreeSeqs(PureIds)}
    /\ pureCanonical \in DuplicateFreeSeqs(PureIds)
    /\ pureResult = <<>>
    /\ nextOrderItems = <<>>
    /\ nextOrderResult = <<>>
    /\ DashboardIdle

SpecPure == InitPure /\ [][PureNext]_vars

OpenProjects == activeSectionId # "projects" /\ SectionTabClicked("projects")

LeaveProjects == activeSectionId = "projects" /\ SectionTabClicked("site-settings")

ProjectsNext ==
    \/ ProjectCreated
    \/ ProjectDeleted
    \/ ProjectUpdated
    \/ HandleProjectReorder
    \/ ClickSaveProjectOrder
    \/ ClickResetProjectOrder
    \/ ResolveProjectOrderSuccess
    \/ ResolveProjectOrderFailure
    \/ OpenProjects
    \/ LeaveProjects

NextOrderNext == CallGetNextOrder \/ CallGetNextOrderOfShell

InitNextOrder ==
    /\ pureDraft = NULL
    /\ pureCanonical = <<>>
    /\ pureResult = <<>>
    /\ nextOrderItems \in SeqsUpTo(OrderValues, MaxOrderItems)
    /\ nextOrderResult = <<>>
    /\ DashboardIdle

SpecNextOrder == InitNextOrder /\ [][NextOrderNext]_vars

Init ==
    /\ pureDraft = NULL
    /\ pureCanonical = <<>>
    /\ pureResult = <<>>
    /\ nextOrderItems = <<>>
    /\ nextOrderResult = <<>>
    /\ DashboardIdle

SpecProjects == Init /\ [][ProjectsNext]_vars

OpenExperiences == activeSectionId # "experiences" /\ SectionTabClicked("experiences")

LeaveExperiences == activeSectionId = "experiences" /\ SectionTabClicked("site-settings")

ExperiencesNext ==
    \/ ExperienceCreated
    \/ ExperienceDeleted
    \/ ExperienceUpdated
    \/ CurrentExperienceSwitched
    \/ HandleExperienceReorder
    \/ SelectCurrentRole
    \/ ClickSaveExperienceLayout
    \/ ClickResetExperienceLayout
    \/ ResolveExperienceLayoutSuccess
    \/ ResolveExperienceLayoutFailure
    \/ OpenExperiences
    \/ LeaveExperiences

SpecExperiences == Init /\ [][ExperiencesNext]_vars

\* The two reorder collections share no state but activeSectionId and
\* toastTitle; this specification explores each of them while the backend
\* has not populated the other.
ReorderNext ==
    \/ (createdExperiences = 0 /\ ProjectsNext)
    \/ (createdProjects = 0 /\ ExperiencesNext)

SpecReorder == Init /\ [][ReorderNext]_vars

OpenTechnologies == activeSectionId # "technologies" /\ SectionTabClicked("technologies")

LeaveTechnologies == activeSectionId = "technologies" /\ SectionTabClicked("site-settings")

TechNext ==
    \/ TechnologyCreated
    \/ TechnologyDeleted
    \/ TechnologyUpdated
    \/ updateTechField
    \/ toggleTechExpand
    \/ ClickAddTechnology
    \/ ClickCreateItem
    \/ deleteTechDraftItem
    \/ ClickCancelTechBatch
    \/ ClickSaveTechBatch
    \/ ResolveTechBatchSuccess
    \/ ResolveTechBatchFailure
    \/ OpenTechnologies
    \/ LeaveTechnologies

SpecTech == Init /\ [][TechNext]_vars

\* All three collections, each explored while the other two are untouched.
DashboardNext ==
    \/ (createdExperiences = 0 /\ createdTechnologies = 0 /\ techEdits = 0 /\ ProjectsNext)
    \/ (createdProjects = 0 /\ createdTechnologies = 0 /\ techEdits = 0 /\ ExperiencesNext)
    \/ (createdProjects = 0 /\ createdExperiences = 0 /\ TechNext)

SpecDashboard == Init /\ [][DashboardNext]_vars

\* The promise of a mutation call settles: it resolves or it rejects.
ProjectRequestSettles ==
    /\ createdExperiences = 0 /\ createdTechnologies = 0 /\ techEdits = 0
    /\ (ResolveProjectOrderSuccess \/ ResolveProjectOrderFailure)

ExperienceRequestSettles ==
    /\ createdProjects = 0 /\ createdTechnologies = 0 /\ techEdits = 0
    /\ (ResolveExperienceLayoutSuccess \/ ResolveExperienceLayoutFailure)

TechRequestSettles ==
    /\ createdProjects = 0 /\ createdExperiences = 0
    /\ (ResolveTechBatchSuccess \/ ResolveTechBatchFailure)

SpecDashboardSettling ==
    /\ SpecDashboard
    /\ WF_vars(ProjectRequestSettles)
    /\ WF_vars(ExperienceRequestSettles)
    /\ WF_vars(TechRequestSettles)

\* The three drafts side by side in a small dashboard: at most two projects,
\* two experiences and one technology, no commits; a technology card is
\* expanded once, which materializes a batch draft that survives a section
\* change.
FramesNext ==
    \/ (createdProjects <= 1 /\ ProjectCreated)
    \/ HandleProjectReorder
    \/ ClickResetProjectOrder
    \/ OpenProjects
    \/ (createdExperiences <= 1 /\ ExperienceCreated)
    \/ HandleExperienceReorder
    \/ SelectCurrentRole
    \/ ClickResetExperienceLayout
    \/ OpenExperiences
    \/ (createdTechnologies = 0 /\ TechnologyCreated)
    \/ (techDraftItems = NULL /\ toggleTechExpand)
    \/ OpenTechnologies

SpecFrames == Init /\ [][FramesNext]_vars

\* Projects and technologies side by side, for what needs both populated.
OverlapNext == ProjectsNext \/ TechNext

SpecOverlap == Init /\ [][OverlapNext]_vars

\* ============================================================ properties
\* ------------------------------------------------------------ reconcileDraftOrder
PureReturned == pureResult # <<>>

PureValue == pureResult[1]

\* C1: for a non-null (duplicate-free) draft D and canonical ids C the result
\* of reconcileDraftOrder(D, C) lists exactly the ids of C, each exactly
\* once, and no id outside C.
C1_ReconcileIsPermutation ==
    (PureReturned /\ pureDraft # NULL) =>
        /\ PureValue # NULL
        /\ SeqToSet(Unwrap(PureValue)) = SeqToSet(pureCanonical)
        /\ IsDuplicateFree(Unwrap(PureValue))
        /\ Len(Unwrap(PureValue)) = Len(pureCanonical)

\* reached: a call whose draft holds an id that left canonical and lacks a
\* canonical id
C1_Witness ==
    /\ PureReturned
    /\ pureDraft # NULL
    /\ SeqToSet(Unwrap(pureDraft)) \ SeqToSet(pureCanonical) # {}
    /\ SeqToSet(pureCanonical) \ SeqToSet(Unwrap(pureDraft)) # {}
    /\ Len(pureCanonical) >= 2

\* C2: reconcileDraftOrder is idempotent: reconciling its own result against
\* the same canonical ids returns that result.
C2_ReconcileIdempotent ==
    PureReturned => reconcileDraftOrder(PureValue, pureCanonical) = PureValue

\* reached: a call that changed the draft (dropped a stale id and appended a
\* missing one), so the second reconciliation starts from a different input
C2_Witness ==
    /\ PureReturned
    /\ pureDraft # NULL
    /\ PureValue # pureDraft
    /\ SeqToSet(Unwrap(pureDraft)) \ SeqToSet(pureCanonical) # {}
    /\ SeqToSet(pureCanonical) \ SeqToSet(Unwrap(pureDraft)) # {}

\* C3: a null draft reconciles to null; otherwise the result is the draft's
\* ids that are still canonical, in draft order, followed by the canonical
\* ids the draft lacked, in canonical order.
C3_ReconcileKeepsDraftOrder ==
    PureReturned =>
        IF pureDraft = NULL THEN PureValue = NULL
        ELSE /\ PureValue # NULL
             /\ LET draftIds == Unwrap(pureDraft)
                    retained == SelectSeq(draftIds, LAMBDA id : id \in SeqToSet(pureCanonical))
                    missing == SelectSeq(pureCanonical, LAMBDA id : id \notin SeqToSet(draftIds))
                IN /\ SubSeq(Unwrap(PureValue), 1, Len(retained)) = retained
                   /\ SubSeq(Unwrap(PureValue), Len(retained) + 1, Len(Unwrap(PureValue))) = missing

\* reached: two retained ids in an order that differs from canonical, and a
\* missing id appended after them
C3_Witness ==
    /\ PureReturned
    /\ pureDraft # NULL
    /\ \E i, j \in DOMAIN pureCanonical :
          /\ i < j
          /\ \E k, l \in DOMAIN Unwrap(pureDraft) :
                /\ k < l
                /\ Unwrap(pureDraft)[k] = pureCanonical[j]
                /\ Unwrap(pureDraft)[l] = pureCanonical[i]
    /\ SeqToSet(pureCanonical) \ SeqToSet(Unwrap(pureDraft)) # {}

\* ------------------------------------------------------------ draft order and canonical updates
IsPermutationOf(ids, canonicalIds) ==
    /\ Len(ids) = Len(canonicalIds)
    /\ IsDuplicateFree(ids)
    /\ SeqToSet(ids) = SeqToSet(canonicalIds)

\* C4: after any sequence of reorders and canonical updates (the effects of
\* the latest canonical update having run) a non-null draft order of projects
\* or experiences lists every canonical id exactly once and no other id.
C4_DraftOrderIsPermutation ==
    /\ projectDraftOrderIds # NULL =>
          IsPermutationOf(Unwrap(projectDraftOrderIds), canonicalProjectOrderIds)
    /\ experienceDraftOrderIds # NULL =>
          IsPermutationOf(Unwrap(experienceDraftOrderIds), canonicalExperienceOrderIds)

\* reached: an id that was in the draft when it was sent has left canonical
\* since, and the draft the effect kept is still a pending reorder
C4_Witness ==
    /\ projectDraftOrderIds # NULL
    /\ hasProjectOrderChanges
    /\ \E k \in DOMAIN projectInFlight :
          SeqToSet(idsOf(projectInFlight[k].items)) \ SeqToSet(canonicalProjectOrderIds) # {}

ProjectsRefreshed == projects' # projects

ExperiencesRefreshed == experiences' # experiences

\* C5 as stated: whenever the reconciliation effect runs and the reconciled
\* draft order equals the canonical id order, the stored draft becomes null.
C5_Original_CollapseWheneverEqual ==
    [][/\ (ProjectsRefreshed /\ projectDraftOrderIds # NULL) =>
             \A itemsAfter \in {projects'} :
             \A canonicalIds \in {idsOf(sortByOrder(itemsAfter))} :
                reconcileDraftOrder(projectDraftOrderIds, canonicalIds) = Some(canonicalIds)
                   => projectDraftOrderIds' = NULL
       /\ (ExperiencesRefreshed /\ experienceDraftOrderIds # NULL) =>
             \A itemsAfter \in {experiences'} :
             \A canonicalIds \in {idsOf(sortByOrder(itemsAfter))} :
                reconcileDraftOrder(experienceDraftOrderIds, canonicalIds) = Some(canonicalIds)
                   => experienceDraftOrderIds' = NULL]_vars

\* C5 amended: when the effect runs, a draft that reconciliation had to change
\* (an id dropped or appended) becomes null if its reconciled order equals the
\* canonical order and the reconciled order otherwise; a draft that already
\* lists exactly the canonical ids is kept as stored, also when it equals the
\* canonical order.
C5_CollapseWhenReconciliationChangedDraft ==
    [][/\ (ProjectsRefreshed /\ projectDraftOrderIds # NULL) =>
             \A itemsAfter \in {projects'} :
             \A canonicalIds \in {idsOf(sortByOrder(itemsAfter))} :
             \A reconciled \in {reconcileDraftOrder(projectDraftOrderIds, canonicalIds)} :
                IF reconciled = projectDraftOrderIds
                THEN projectDraftOrderIds' = projectDraftOrderIds
                ELSE projectDraftOrderIds' =
                        IF reconciled = Some(canonicalIds) THEN NULL ELSE reconciled
       /\ (ExperiencesRefreshed /\ experienceDraftOrderIds # NULL) =>
             \A itemsAfter \in {experiences'} :
             \A canonicalIds \in {idsOf(sortByOrder(itemsAfter))} :
             \A reconciled \in {reconcileDraftOrder(experienceDraftOrderIds, canonicalIds)} :
                IF reconciled = experienceDraftOrderIds
                THEN experienceDraftOrderIds' = experienceDraftOrderIds
                ELSE experienceDraftOrderIds' =
                        IF reconciled = Some(canonicalIds) THEN NULL ELSE reconciled]_vars

\* reached: the effect collapsed the draft while its commit was in flight
\* (Reset is disabled while saving and the request has not resolved, so only
\* the effect can have cleared the draft)
C5_Witness ==
    /\ isSavingProjectOrder
    /\ Len(projectInFlight) = 1
    /\ projectDraftOrderIds = NULL
    /\ Len(projects) >= 1

\* ------------------------------------------------------------ change detection
\* C6: hasChanges of a reorder collection is true iff the draft order is
\* non-null and differs from the canonical id order, or (experiences) the
\* draft flag is set and differs from the canonical current id; a draft that
\* lists the canonical ids in canonical order is Clean: Save and Reset are
\* disabled.
C6_HasChangesIffDraftDiffers ==
    /\ hasProjectOrderChanges <=>
          (projectDraftOrderIds # NULL /\ projectDraftOrderIds # Some(canonicalProjectOrderIds))
    /\ hasExperienceChanges <=>
          \/ (experienceDraftOrderIds # NULL
                /\ experienceDraftOrderIds # Some(canonicalExperienceOrderIds))
          \/ (experienceDraftCurrentRoleId # UNDEFINED
                /\ experienceDraftCurrentRoleId # canonicalCurrentExperienceId)
    /\ projectDraftOrderIds = Some(canonicalProjectOrderIds) => ProjectSaveDisabled
    /\ (experienceDraftOrderIds = Some(canonicalExperienceOrderIds)
          /\ experienceDraftCurrentRoleId = UNDEFINED) => ExperienceSaveDisabled

\* reached: a non-null draft that lists the canonical ids in canonical order
C6_Witness ==
    /\ projectDraftOrderIds = Some(canonicalProjectOrderIds)
    /\ Len(canonicalProjectOrderIds) >= 2
    /\ ~isSavingProjectOrder
    /\ activeSectionId = "projects"

\* ------------------------------------------------------------ reorder commit
ProjectCommitStarted == Len(projectInFlight') > Len(projectInFlight)

ExperienceCommitStarted == Len(experienceInFlight') > Len(experienceInFlight)

IsDenseRenumbering(items, effectiveIds, canonicalIds) ==
    /\ idsOf(items) = effectiveIds
    /\ IsPermutationOf(idsOf(items), canonicalIds)
    /\ \A index \in DOMAIN items : items[index].order = index

ProjectCommitFailed ==
    /\ Len(projectInFlight') < Len(projectInFlight)
    /\ toastTitle' = "Unable to save project order"

ExperienceCommitFailed ==
    /\ Len(experienceInFlight') < Len(experienceInFlight)
    /\ toastTitle' = "Unable to save experience layout"

\* C8: handling a failed reorder commit leaves draft order and draft flag as
\* they were, hasChanges keeps its value (a dirty draft stays dirty and Save
\* is enabled again), and no request is issued by the handler.
C8_FailureKeepsDraft ==
    [][/\ ProjectCommitFailed =>
             \A itemsAfter \in {projects'} :
             \A changesAfter \in {hasOrderChanges(projectDraftOrderIds',
                                                  idsOf(sortByOrder(itemsAfter)))} :
                /\ projectDraftOrderIds' = projectDraftOrderIds
                /\ changesAfter = hasProjectOrderChanges
                /\ hasProjectOrderChanges => ~(isSavingProjectOrder' \/ ~changesAfter)
                /\ Len(projectInFlight') = Len(projectInFlight) - 1
       /\ ExperienceCommitFailed =>
             \A itemsAfter \in {experiences'} :
             \A sortedAfter \in {sortByOrder(itemsAfter)} :
             \A changesAfter \in {\/ hasOrderChanges(experienceDraftOrderIds', idsOf(sortedAfter))
                                   \/ hasCurrentRoleChanges(experienceDraftCurrentRoleId',
                                                            currentIdOf(sortedAfter))} :
                /\ experienceDraftOrderIds' = experienceDraftOrderIds
                /\ experienceDraftCurrentRoleId' = experienceDraftCurrentRoleId
                /\ changesAfter = hasExperienceChanges
                /\ hasExperienceChanges => ~(isSavingExperienceLayout' \/ ~changesAfter)
                /\ Len(experienceInFlight') = Len(experienceInFlight) - 1]_vars

\* reached: a failed experience commit with both a pending reorder and a
\* pending current-role change still stored
C8_Witness ==
    /\ toastTitle = "Unable to save experience layout"
    /\ experienceInFlight = <<>>
    /\ ~isSavingExperienceLayout
    /\ hasExperienceOrderChanges
    /\ hasExperienceCurrentRoleChanges

ProjectCommitSucceeded ==
    /\ Len(projectInFlight') < Len(projectInFlight)
    /\ toastTitle' = "Project order saved"

ExperienceCommitSucceeded ==
    /\ Len(experienceInFlight') < Len(experienceInFlight)
    /\ toastTitle' = "Experience layout saved"

\* C9: a successful reorder commit sets the draft order to null and (for
\* experiences) the draft flag to unset, leaving the collection Clean and not
\* saving; a commit is started only from a Dirty state.
C9_SuccessClearsDraft ==
    [][/\ ProjectCommitSucceeded =>
             /\ projectDraftOrderIds' = NULL
             /\ ~isSavingProjectOrder'
             /\ ~hasProjectOrderChanges'
       /\ ExperienceCommitSucceeded =>
             /\ experienceDraftOrderIds' = NULL
             /\ experienceDraftCurrentRoleId' = UNDEFINED
             /\ ~isSavingExperienceLayout'
             /\ ~hasExperienceChanges'
       /\ ProjectCommitStarted => (hasProjectOrderChanges /\ isSavingProjectOrder')
       /\ ExperienceCommitStarted => (hasExperienceChanges /\ isSavingExperienceLayout')]_vars

\* reached: the project commit has succeeded and the collection is Clean
C9_Witness ==
    /\ toastTitle = "Project order saved"
    /\ projectInFlight = <<>>
    /\ ~isSavingProjectOrder
    /\ projectDraftOrderIds = NULL
    /\ Len(projects) >= 2

\* ------------------------------------------------------------ one commit per collection
\* C10: in every reachable state each collection has at most one commit
\* request in flight, and while a request is in flight the collection's
\* isSaving flag is set and its Save button is disabled; no interleaving of
\* Save clicks, canonical updates and completions starts a second one.
C10_OneCommitInFlightPerCollection ==
    /\ Len(projectInFlight) <= 1
    /\ Len(experienceInFlight) <= 1
    /\ Len(techInFlight) <= 1
    /\ projectInFlight # <<>> => (isSavingProjectOrder /\ ProjectSaveDisabled)
    /\ experienceInFlight # <<>> => (isSavingExperienceLayout /\ ExperienceSaveDisabled)
    /\ techInFlight # <<>> => (isSavingTechBatch /\ TechSaveDisabled)

\* reached: the toolbar is shown while a project commit is in flight and the
\* user has reordered again since, so the draft is Dirty and differs from
\* what was sent, and Save is not offered
C10_Witness ==
    /\ ProjectToolbarRendered
    /\ Len(projectInFlight) = 1
    /\ hasProjectOrderChanges
    /\ projectDraftOrderIds # Some(idsOf(projectInFlight[1].items))
    /\ ProjectSaveDisabled

\* commits of different collections do overlap: this state is reachable
\* under SpecOverlap
CommitsOverlap == Len(projectInFlight) = 1 /\ Len(techInFlight) = 1

\* ------------------------------------------------------------ reset
\* C11: a Reset click on a reorder collection sets its draft order to null
\* and (experiences) its draft flag to unset, so the collection is Clean; it
\* starts no request and leaves the canonical data, the drafts of the other
\* reorder collection and the technologies batch draft as they were.
C11_ResetClearsOwnDraftOnly ==
    [][/\ ClickResetProjectOrder =>
             /\ projectDraftOrderIds' = NULL
             /\ ~hasProjectOrderChanges'
             /\ projectInFlight' = projectInFlight /\ isSavingProjectOrder' = isSavingProjectOrder
             /\ projects' = projects
             /\ experienceVars' = experienceVars
             /\ techVars' = techVars
       /\ ClickResetExperienceLayout =>
             /\ experienceDraftOrderIds' = NULL
             /\ experienceDraftCurrentRoleId' = UNDEFINED
             /\ ~hasExperienceChanges'
             /\ experienceInFlight' = experienceInFlight
             /\ isSavingExperienceLayout' = isSavingExperienceLayout
             /\ experiences' = experiences
             /\ projectVars' = projectVars
             /\ techVars' = techVars]_vars

\* reached: Reset of the experience toolbar is enabled with a pending reorder
\* and a pending current-role change, while a project draft order and a
\* technologies batch draft exist
C11_Witness ==
    /\ ExperienceToolbarRendered
    /\ ~ExperienceSaveDisabled
    /\ experienceDraftOrderIds # NULL
    /\ experienceDraftCurrentRoleId # UNDEFINED
    /\ projectDraftOrderIds # NULL
    /\ techDraftItems # NULL

\* ------------------------------------------------------------ current-role flag
\* C12: selecting as current role the value canonical already holds (None
\* when no experience is current) stores the unset sentinel and the flag
\* facet of hasChanges is false afterwards; selecting any other value stores
\* that value and the facet is true afterwards.
C12_FlagNormalizedToUnset ==
    [][\A nextCurrentRoleId \in {NullId} \cup ExperienceIds :
          handleExperienceCurrentRoleChange(nextCurrentRoleId) =>
             IF nextCurrentRoleId = canonicalCurrentExperienceId
             THEN /\ experienceDraftCurrentRoleId' = UNDEFINED
                  /\ ~hasCurrentRoleChanges(experienceDraftCurrentRoleId',
                                            canonicalCurrentExperienceId)
             ELSE /\ experienceDraftCurrentRoleId' = nextCurrentRoleId
                  /\ hasCurrentRoleChanges(experienceDraftCurrentRoleId',
                                           canonicalCurrentExperienceId)]_vars

\* reached: the select is enabled, no experience is current in canonical and
\* the draft flag holds an id, so choosing None stores the unset sentinel
C12_Witness ==
    /\ ExperienceToolbarRendered
    /\ ~isSavingExperienceLayout
    /\ canonicalCurrentExperienceId = NullId
    /\ experienceDraftCurrentRoleId \in ExperienceIds

\* C13: on every canonical update of the experiences the draft flag is
\* reconciled: a held id that no longer exists in canonical becomes unset, a
\* value equal to the canonical current id becomes unset, anything else is
\* kept; so afterwards a set draft flag is null or the id of an existing
\* experience and differs from the canonical current id.
C13_FlagReconciledOnCanonicalUpdate ==
    [][ExperiencesRefreshed =>
          \A itemsAfter \in {experiences'} :
          \A idsAfter \in {SeqToSet(idsOf(itemsAfter))} :
          \A currentAfter \in {currentIdOf(sortByOrder(itemsAfter))} :
             /\ experienceDraftCurrentRoleId' =
                   IF /\ experienceDraftCurrentRoleId # UNDEFINED
                      /\ experienceDraftCurrentRoleId # NullId
                      /\ experienceDraftCurrentRoleId \notin idsAfter
                   THEN UNDEFINED
                   ELSE IF experienceDraftCurrentRoleId = currentAfter
                   THEN UNDEFINED
                   ELSE experienceDraftCurrentRoleId
             /\ experienceDraftCurrentRoleId' # UNDEFINED =>
                   /\ experienceDraftCurrentRoleId' \in {NullId} \cup idsAfter
                   /\ experienceDraftCurrentRoleId' # currentAfter]_vars

\* reached: an experience was deleted from canonical and the draft flag was
\* kept, naming an existing experience that is not the canonical current one
C13_Witness ==
    /\ Len(experiences) < createdExperiences
    /\ experienceDraftCurrentRoleId \in SeqToSet(idsOf(experiences))
    /\ experienceDraftCurrentRoleId # canonicalCurrentExperienceId

TechCommitStarted == Len(techInFlight') > Len(techInFlight)

TechRowsWhere(items, isNew, isDeleted) ==
    SelectSeq(items, LAMBDA item : item._isNew = isNew /\ item._isDeleted = isDeleted)

TechRowIds(rows) == {rows[i]._id : i \in DOMAIN rows}

\* C15: the batch commit splits the draft rows into three pairwise disjoint
\* sets: creates are exactly the rows that are _isNew and not _isDeleted,
\* deletes exactly the rows that are _isDeleted and not _isNew, updates only
\* rows that are neither, and a row that is both _isNew and _isDeleted is in
\* none of the three.
C15_BatchSplitIsDisjoint ==
    [][TechCommitStarted =>
          \A request \in {techInFlight'[Len(techInFlight')]} :
          \A draft \in {Unwrap(techDraftItems)} :
          \A created \in {TechRowsWhere(draft, TRUE, FALSE)} :
          \A deleted \in {TechRowsWhere(draft, FALSE, TRUE)} :
          \A updateIds \in {{request.updates[i].id : i \in DOMAIN request.updates}} :
          \A deleteIds \in {{request.deletes[i] : i \in DOMAIN request.deletes}} :
             /\ request.creates = [i \in DOMAIN created |-> techRequestFields(created[i])]
             /\ request.deletes = [i \in DOMAIN deleted |-> deleted[i]._id]
             /\ updateIds \subseteq TechRowIds(TechRowsWhere(draft, FALSE, FALSE))
             /\ Cardinality(updateIds) = Len(request.updates)
             /\ updateIds \cap deleteIds = {}
             /\ TechRowIds(created) \cap (updateIds \cup deleteIds) = {}
             /\ TechRowIds(TechRowsWhere(draft, TRUE, TRUE)) \cap (updateIds \cup deleteIds) = {}]_vars

\* reached: a request in flight carries a create and a delete
C15_Witness ==
    /\ techInFlight # <<>>
    /\ techInFlight[Len(techInFlight)].creates # <<>>
    /\ techInFlight[Len(techInFlight)].deletes # <<>>

TrackedTechFields == {"name", "category", "description", "iconName", "iconUrl", "order"}

\* C16: the update set of a batch commit is minimal: a draft row that is
\* neither new nor deleted is in updates iff a tracked field (name, category,
\* description, iconName, iconUrl, order) differs from its canonical
\* counterpart; a row equal to canonical in every tracked field is not sent.
C16_UpdatesAreMinimal ==
    [][TechCommitStarted =>
          \A request \in {techInFlight'[Len(techInFlight')]} :
          \A existing \in {TechRowsWhere(Unwrap(techDraftItems), FALSE, FALSE)} :
          \A updateIds \in {{request.updates[i].id : i \in DOMAIN request.updates}} :
          \A i \in DOMAIN existing :
             existing[i]._id \in updateIds <=>
                \E k \in DOMAIN technologies :
                   /\ technologies[k]._id = existing[i]._id
                   /\ \E field \in TrackedTechFields :
                         existing[i][field] # technologies[k][field]]_vars

\* reached: a request in flight carries an update of an edited technology
C16_Witness ==
    /\ techInFlight # <<>>
    /\ techInFlight[Len(techInFlight)].updates # <<>>
    /\ techDraftItems # NULL

\* also reached: a request in flight carries no update while the draft holds
\* a row that equals its canonical counterpart
C16_UnchangedRowNotSent ==
    /\ techInFlight # <<>>
    /\ techInFlight[Len(techInFlight)].updates = <<>>
    /\ techDraftItems # NULL
    /\ \E i \in DOMAIN Unwrap(techDraftItems), k \in DOMAIN technologies :
          /\ Unwrap(techDraftItems)[i]._id = technologies[k]._id
          /\ ~Unwrap(techDraftItems)[i]._isDeleted
          /\ \A field \in TrackedTechFields :
                Unwrap(techDraftItems)[i][field] = technologies[k][field]

\* ------------------------------------------------------------ batch validation
\* C17: validation precedes the request and is all-or-nothing: when a row
\* that is not deleted has an empty name or an empty category, a click on
\* Save All issues no request, leaves the draft as it is and does not enter
\* Saving; deleted rows are exempt, so when every row that is not deleted
\* has a name and a category the click issues the request whatever the
\* deleted rows hold.
C17_ValidationPrecedesRequest ==
    [][ClickSaveTechBatch =>
          \A draft \in {Unwrap(techDraftItems)} :
             /\ (\E i \in DOMAIN draft :
                    /\ ~draft[i]._isDeleted
                    /\ (draft[i].name = "" \/ draft[i].category = ""))
                   => /\ techInFlight' = techInFlight
                      /\ techDraftItems' = techDraftItems
                      /\ ~isSavingTechBatch'
             /\ (\A i \in DOMAIN draft :
                    \/ draft[i]._isDeleted
                    \/ (trim(draft[i].name) # "" /\ trim(draft[i].category) # ""))
                   => /\ TechCommitStarted
                      /\ isSavingTechBatch']_vars

\* reached: Save All answered with the validation toast; nothing is in
\* flight, the dashboard is not saving and the draft is still there
C17_Witness ==
    /\ toastTitle = "Validation error"
    /\ techInFlight = <<>>
    /\ ~isSavingTechBatch
    /\ techDraftItems # NULL

\* also reached: a request is in flight while the draft holds a deleted row
\* with an empty name
C17_DeletedRowExempt ==
    /\ techInFlight # <<>>
    /\ techDraftItems # NULL
    /\ \E i \in DOMAIN Unwrap(techDraftItems) :
          Unwrap(techDraftItems)[i]._isDeleted /\ Unwrap(techDraftItems)[i].name = ""

\* ------------------------------------------------------------ batch commit outcome
TechCommitSucceeded ==
    /\ Len(techInFlight') < Len(techInFlight)
    /\ toastTitle' = "Technologies saved"

TechCommitFailed ==
    /\ Len(techInFlight') < Len(techInFlight)
    /\ toastTitle' = "Save failed"

\* C18: a batch commit sends one request that carries creates, updates and
\* deletes together; when the request succeeds the draft batch becomes null,
\* and when it fails the draft batch, with its _isNew rows and its _isDeleted
\* tombstones, stays as it was.
C18_BatchDraftClearedOnSuccessOnly ==
    [][/\ TechCommitStarted =>
             /\ Len(techInFlight') = Len(techInFlight) + 1
             /\ DOMAIN techInFlight'[Len(techInFlight')] = {"creates", "updates", "deletes"}
             /\ techDraftItems' = techDraftItems
       /\ TechCommitSucceeded =>
             /\ techDraftItems' = NULL
             /\ Len(techInFlight') = Len(techInFlight) - 1
       /\ TechCommitFailed =>
             /\ techDraftItems' = techDraftItems
             /\ Len(techInFlight') = Len(techInFlight) - 1]_vars

\* reached: the request has failed and the draft still holds a new row and a
\* tombstone
C18_Witness ==
    /\ toastTitle = "Save failed"
    /\ techInFlight = <<>>
    /\ techDraftItems # NULL
    /\ \E i, j \in DOMAIN Unwrap(techDraftItems) :
          Unwrap(techDraftItems)[i]._isNew /\ Unwrap(techDraftItems)[j]._isDeleted

\* ------------------------------------------------------------ batch change detection
\* some draft row is new, or deleted, or differs in a tracked field from the
\* canonical document of its id
TechRowChanged(row) ==
    \/ row._isNew
    \/ row._isDeleted
    \/ \E k \in DOMAIN technologies :
          /\ technologies[k]._id = row._id
          /\ \E field \in TrackedTechFields : row[field] # technologies[k][field]

\* C19 as stated: for the technologies, hasChanges is true iff a draft batch
\* exists and some draft row is _isNew, or is _isDeleted, or differs in a
\* tracked field from its canonical counterpart; a materialized draft whose
\* rows all equal canonical reports no changes.
C19_HasChangesIffSomeRowChanged ==
    hasTechChanges <=>
       /\ techDraftItems # NULL
       /\ \E i \in DOMAIN Unwrap(techDraftItems) : TechRowChanged(Unwrap(techDraftItems)[i])

\* reached: hasChanges is true although no draft row is new, deleted or
\* different from a canonical counterpart: the draft holds a row whose
\* canonical document has been deleted
C19_Witness ==
    /\ hasTechChanges
    /\ \A i \in DOMAIN Unwrap(techDraftItems) : ~TechRowChanged(Unwrap(techDraftItems)[i])

\* ------------------------------------------------------------ effective list
\* the rendered list shows the canonical entities in the order of the draft
\* ids, or in canonical order when there is no draft
RendersDraftOrder(effective, draftIds, sorted) ==
    IF draftIds = NULL
    THEN effective = sorted
    ELSE /\ idsOf(effective) = Unwrap(draftIds)
         /\ \A i \in DOMAIN effective : effective[i] \in SeqToSet(sorted)

\* C20: the effective (rendered) list of a collection is the draft when one
\* is present and the canonical list otherwise: for projects and experiences
\* the canonical entities arranged in draft order, for technologies the draft
\* rows; rows marked _isDeleted never appear in it.
C20_EffectiveListIsDraftElseCanonical ==
    /\ RendersDraftOrder(effectiveProjectItems, projectDraftOrderIds, sortedProjects)
    /\ RendersDraftOrder(effectiveExperienceItems, experienceDraftOrderIds, sortedExperiences)
    /\ IF techDraftItems = NULL
       THEN effectiveTechItems = canonicalTechItems
       ELSE /\ SeqToSet(effectiveTechItems) =
                  {row \in SeqToSet(Unwrap(techDraftItems)) : ~row._isDeleted}
            /\ \A i, j \in DOMAIN effectiveTechItems :
                  i < j => \E m, n \in DOMAIN Unwrap(techDraftItems) :
                              /\ m < n
                              /\ Unwrap(techDraftItems)[m] = effectiveTechItems[i]
                              /\ Unwrap(techDraftItems)[n] = effectiveTechItems[j]
    /\ \A i \in DOMAIN effectiveTechItems : ~effectiveTechItems[i]._isDeleted

\* reached: the technologies draft holds a tombstone and a row that is
\* rendered
C20_Witness ==
    /\ techDraftItems # NULL
    /\ \E i \in DOMAIN Unwrap(techDraftItems) : Unwrap(techDraftItems)[i]._isDeleted
    /\ effectiveTechItems # <<>>

\* also reached: a project draft order other than the canonical order is
\* rendered
C20_DraftOrderRendered ==
    /\ projectDraftOrderIds # NULL
    /\ idsOf(effectiveProjectItems) # canonicalProjectOrderIds

\* ------------------------------------------------------------ getNextOrder
\* the order an item counts with: its finite order, 0 when it has none
CountedOrder(order) == IF order.kind = "finite" THEN order.value ELSE 0

NextOrderReturned == nextOrderResult # <<>>

\* C21 as stated, for both getNextOrder functions: 1 for an empty collection,
\* otherwise the maximum order of the items plus 1, a missing order counting
\* as 0; the result is strictly greater than the order of every item.
C21_NextOrderIsMaxPlusOne ==
    NextOrderReturned =>
       /\ nextOrderItems = <<>> => nextOrderResult[2] = 1
       /\ nextOrderItems # <<>> =>
             /\ \E i \in DOMAIN nextOrderItems :
                   nextOrderResult[2] = CountedOrder(nextOrderItems[i]) + 1
             /\ \A i \in DOMAIN nextOrderItems :
                   nextOrderResult[2] >= CountedOrder(nextOrderItems[i]) + 1
       /\ \A i \in DOMAIN nextOrderItems :
             nextOrderResult[2] > CountedOrder(nextOrderItems[i])

\* reached: getNextOrder of ordering.ts has returned 1 for items whose orders
\* are all negative
C21_Witness ==
    /\ NextOrderReturned
    /\ nextOrderResult[1] = "ordering.ts"
    /\ nextOrderItems # <<>>
    /\ \A i \in DOMAIN nextOrderItems : CountedOrder(nextOrderItems[i]) < 0
    /\ nextOrderResult[2] = 1

\* what holds of both functions: 1 for an empty collection, a result
\* strictly greater than every order, and the maximum order plus 1 as soon
\* as one order counts as 0 or more
C21_NextOrderAboveEveryOrder ==
    NextOrderReturned =>
       /\ nextOrderItems = <<>> => nextOrderResult[2] = 1
       /\ \A i \in DOMAIN nextOrderItems :
             nextOrderResult[2] > CountedOrder(nextOrderItems[i])
       /\ (\E i \in DOMAIN nextOrderItems : CountedOrder(nextOrderItems[i]) >= 0) =>
             \E i \in DOMAIN nextOrderItems :
                /\ nextOrderResult[2] = CountedOrder(nextOrderItems[i]) + 1
                /\ \A j \in DOMAIN nextOrderItems :
                      CountedOrder(nextOrderItems[j]) <= CountedOrder(nextOrderItems[i])
       /\ nextOrderResult[1] = "AdminWorkspaceShell.tsx" /\ nextOrderItems # <<>> =>
             \E i \in DOMAIN nextOrderItems :
                /\ nextOrderResult[2] = CountedOrder(nextOrderItems[i]) + 1
                /\ \A j \in DOMAIN nextOrderItems :
                      CountedOrder(nextOrderItems[j]) <= CountedOrder(nextOrderItems[i])

\* ------------------------------------------------------------ batch draft editing
\* the draft a callback works on: the stored draft, or the canonical rows
\* when nothing is stored yet
TechDraftBefore == IF techDraftItems = NULL THEN canonicalTechItems ELSE Unwrap(techDraftItems)

\* C22: deleting a row of the batch draft removes the row outright when it
\* is new and otherwise keeps it and marks it _isDeleted; no other row
\* changes, and a first delete with no draft stored works on a draft
\* materialized from canonical.
C22_DeleteRemovesNewMarksExisting ==
    [][deleteTechDraftItem =>
          \A before \in {TechDraftBefore} :
          \A after \in {Unwrap(techDraftItems')} :
          \E k \in DOMAIN before :
             IF before[k]._isNew
             THEN after = SelectSeq(before, LAMBDA row : row._id # before[k]._id)
             ELSE /\ ~before[k]._isDeleted
                  /\ after = [i \in DOMAIN before |->
                                 IF i = k THEN [before[i] EXCEPT !._isDeleted = TRUE]
                                 ELSE before[i]]]_vars

\* reached: a new row has been removed from the draft and a canonical row is
\* kept in it as a tombstone
C22_Witness ==
    /\ techDraftItems # NULL
    /\ createdTempIds > 0
    /\ techEdits = 3
    /\ \A i \in DOMAIN Unwrap(techDraftItems) : ~Unwrap(techDraftItems)[i]._isNew
    /\ \E i \in DOMAIN Unwrap(techDraftItems) : Unwrap(techDraftItems)[i]._isDeleted

TechRowAdded == createdTempIds' = createdTempIds + 1

\* C23 as stated: adding a row appends exactly one row at the end of the batch draft,
\* _isNew, with a temporary id that no row of the draft and no canonical
\* technology has, and with order one above the largest order in the draft
\* (1 for an empty draft); the rows already there are unchanged, and an
\* existing draft is extended, not replaced by a fresh copy of canonical.
C23_AddAppendsOneNewRow ==
    [][TechRowAdded =>
          \A before \in {TechDraftBefore} :
          \A after \in {Unwrap(techDraftItems')} :
          \A added \in {after[Len(after)]} :
             /\ Len(after) = Len(before) + 1
             /\ \A i \in DOMAIN before : after[i] = before[i]
             /\ added._isNew /\ ~added._isDeleted
             /\ IsTempId(added._id)
             /\ \A i \in DOMAIN before : before[i]._id # added._id
             /\ \A k \in DOMAIN technologies : technologies[k]._id # added._id
             /\ \A i \in DOMAIN before : added.order > before[i].order
             /\ IF before = <<>> THEN added.order = 1
                ELSE \E i \in DOMAIN before : added.order = before[i].order + 1]_vars

\* reached: the draft ends with a new row of order 1 although every row
\* before it has a negative order
C23_Witness ==
    /\ techDraftItems # NULL
    /\ Len(Unwrap(techDraftItems)) >= 2
    /\ Unwrap(techDraftItems)[Len(Unwrap(techDraftItems))]._isNew
    /\ Unwrap(techDraftItems)[Len(Unwrap(techDraftItems))].order = 1
    /\ \A i \in 1..(Len(Unwrap(techDraftItems)) - 1) : Unwrap(techDraftItems)[i].order < 0

\* what holds of every add: one new row with a fresh temporary id is
\* appended to the existing draft, whose rows are unchanged, and its order is
\* 1 when no row has a positive order and the largest order plus 1 otherwise
C23_AddAppendsOneRowAboveAll ==
    [][TechRowAdded =>
          \A before \in {TechDraftBefore} :
          \A after \in {Unwrap(techDraftItems')} :
          \A added \in {after[Len(after)]} :
             /\ Len(after) = Len(before) + 1
             /\ \A i \in DOMAIN before : after[i] = before[i]
             /\ added._isNew /\ ~added._isDeleted
             /\ IsTempId(added._id)
             /\ \A i \in DOMAIN before : before[i]._id # added._id
             /\ \A k \in DOMAIN technologies : technologies[k]._id # added._id
             /\ \A i \in DOMAIN before : added.order > before[i].order
             /\ IF \A i \in DOMAIN before : before[i].order <= 0 THEN added.order = 1
                ELSE \E i \in DOMAIN before : added.order = before[i].order + 1]_vars

\* also reached: a row was added to a draft that differed from canonical, and
\* the earlier edit is still in the draft
C23_AddedToEditedDraft ==
    /\ techDraftItems # NULL
    /\ Len(Unwrap(techDraftItems)) >= 2
    /\ Unwrap(techDraftItems)[Len(Unwrap(techDraftItems))]._isNew
    /\ Unwrap(techDraftItems)[1]._isDeleted

\* ------------------------------------------------------------ saving ends
\* C24: every commit that enters Saving leaves it once its request settles:
\* after a success and after a rejection alike isSaving is false again, a
\* success leaves the draft cleared and a rejection leaves it as it was; a
\* collection is saving only while a request of its own is pending.
C24_SavingEndsWhenRequestSettles ==
    /\ isSavingProjectOrder ~> ~isSavingProjectOrder
    /\ isSavingExperienceLayout ~> ~isSavingExperienceLayout
    /\ isSavingTechBatch ~> ~isSavingTechBatch
    /\ [](isSavingProjectOrder => projectInFlight # <<>>)
    /\ [](isSavingExperienceLayout => experienceInFlight # <<>>)
    /\ [](isSavingTechBatch => techInFlight # <<>>)
    /\ [][/\ ProjectCommitSucceeded => (~isSavingProjectOrder' /\ projectDraftOrderIds' = NULL)
          /\ ProjectCommitFailed =>
                (~isSavingProjectOrder' /\ projectDraftOrderIds' = projectDraftOrderIds)
          /\ TechCommitSucceeded => (~isSavingTechBatch' /\ techDraftItems' = NULL)
          /\ TechCommitFailed => (~isSavingTechBatch' /\ techDraftItems' = techDraftItems)]_vars

\* reached: the technologies request was rejected, the collection is not
\* saving and its draft still reports changes
C24_Witness ==
    /\ toastTitle = "Save failed"
    /\ ~isSavingTechBatch
    /\ techInFlight = <<>>
    /\ hasTechChanges

\* ------------------------------------------------------------ navigation
SectionIds == {"site-settings", "projects", "experiences", "technologies"}

\* C25: while the batch draft has unsaved changes a section switch asks for
\* confirmation: declined, the active section and the draft stay as they
\* are; confirmed, the draft is discarded and the section changes; without
\* unsaved batch changes the section changes unprompted and the draft stays.
C25_SectionChangeAsksBeforeDiscarding ==
    [][\A nextId \in SectionIds, confirmed \in BOOLEAN :
          onSectionChange(nextId, confirmed) =>
             IF hasTechChanges
             THEN IF confirmed
                  THEN activeSectionId' = nextId /\ techDraftItems' = NULL
                  ELSE activeSectionId' = activeSectionId /\ techDraftItems' = techDraftItems
             ELSE activeSectionId' = nextId /\ techDraftItems' = techDraftItems]_vars

\* reached: while a batch request is pending (Cancel is disabled) the user
\* has confirmed a section switch, so the draft is gone and another section
\* is shown
C25_Witness ==
    /\ isSavingTechBatch
    /\ techDraftItems = NULL
    /\ activeSectionId # "technologies"

\* ------------------------------------------------------------ reorder during a commit
\* the draft is an order the user set after `request` was issued: it lists
\* the ids the request lists, which are the canonical ids, in another order
ReorderedSince(draftIds, request, canonicalIds) ==
    /\ draftIds # NULL
    /\ SeqToSet(idsOf(request.items)) = SeqToSet(canonicalIds)
    /\ SeqToSet(Unwrap(draftIds)) = SeqToSet(canonicalIds)
    /\ Unwrap(draftIds) # idsOf(request.items)

\* C26 as stated: a reorder made while a commit of the same collection is in
\* flight is not lost: when the commit succeeds, a draft order set after the
\* request was issued is still present afterwards.
C26_ReorderDuringCommitIsKept ==
    [][/\ ProjectCommitSucceeded =>
             \A i \in DOMAIN projectInFlight :
                (projectInFlight' = RemoveAt(projectInFlight, i)
                 /\ ReorderedSince(projectDraftOrderIds, projectInFlight[i], canonicalProjectOrderIds))
                   => projectDraftOrderIds' = projectDraftOrderIds
       /\ ExperienceCommitSucceeded =>
             \A i \in DOMAIN experienceInFlight :
                (experienceInFlight' = RemoveAt(experienceInFlight, i)
                 /\ ReorderedSince(experienceDraftOrderIds, experienceInFlight[i],
                                   canonicalExperienceOrderIds))
                   => experienceDraftOrderIds' = experienceDraftOrderIds]_vars

\* reached: a project commit is in flight and the stored draft order is one
\* the user set after the request was issued
C26_Witness ==
    /\ Len(projectInFlight) = 1
    /\ isSavingProjectOrder
    /\ ReorderedSince(projectDraftOrderIds, projectInFlight[1], canonicalProjectOrderIds)

\* ------------------------------------------------------------ change detection and diff
\* C27 as stated: batch change detection and the batch diff agree: whenever
\* hasChanges is true for the technologies draft and validation passes, the
\* request Save builds holds at least one create, update or delete, also
\* after another session has deleted a row the draft still contains.
C27_DirtyDraftSendsSomething ==
    [][TechCommitStarted =>
          \A request \in {techInFlight'[Len(techInFlight')]} :
             request.creates # <<>> \/ request.updates # <<>> \/ request.deletes # <<>>]_vars

\* reached: a request with no create, no update and no delete is in flight
C27_Witness ==
    /\ techInFlight # <<>>
    /\ techInFlight[Len(techInFlight)].creates = <<>>
    /\ techInFlight[Len(techInFlight)].updates = <<>>
    /\ techInFlight[Len(techInFlight)].deletes = <<>>

\* ------------------------------------------------------------ ids of a batch request
CanonicalTechIds == {technologies[k]._id : k \in DOMAIN technologies}

\* C28 as stated: every id a batch commit sends in updates or in deletes is
\* the id of a technology present in canonical when the request is built,
\* whatever canonical updates removed entities while the draft was edited.
C28_SentIdsAreCanonical ==
    [][TechCommitStarted =>
          \A request \in {techInFlight'[Len(techInFlight')]} :
             /\ \A i \in DOMAIN request.updates : request.updates[i].id \in CanonicalTechIds
             /\ \A i \in DOMAIN request.deletes : request.deletes[i] \in CanonicalTechIds]_vars

\* reached: Save All is offered while the draft holds the tombstone of a
\* technology that canonical no longer has
C28_Witness ==
    /\ TechSectionRendered
    /\ ~TechSaveDisabled
    /\ \E i \in DOMAIN Unwrap(techDraftItems) :
          /\ Unwrap(techDraftItems)[i]._isDeleted
          /\ Unwrap(techDraftItems)[i]._id \notin CanonicalTechIds

\* what holds: the ids sent in updates are canonical ids
C28_UpdateIdsAreCanonical ==
    [][TechCommitStarted =>
          \A request \in {techInFlight'[Len(techInFlight')]} :
             \A i \in DOMAIN request.updates : request.updates[i].id \in CanonicalTechIds]_vars

\* ------------------------------------------------------------ canonical field changes
\* a canonical update that changes fields of documents and leaves the set of
\* documents as it is
TechFieldsRefreshed ==
    /\ technologies' # technologies
    /\ {technologies'[k]._id : k \in DOMAIN technologies'} = CanonicalTechIds

\* hasTechChanges for the draft `draft` over the canonical documents `docs`
TechDraftDiffers(draft, docs) ==
    /\ draft # NULL
    /\ \E i \in DOMAIN Unwrap(draft) :
          \/ Unwrap(draft)[i]._isNew
          \/ Unwrap(draft)[i]._isDeleted
          \/ \A k \in DOMAIN docs : docs[k]._id # Unwrap(draft)[i]._id
          \/ \E k \in DOMAIN docs :
                /\ docs[k]._id = Unwrap(draft)[i]._id
                /\ \E field \in TrackedTechFields : Unwrap(draft)[i][field] # docs[k][field]

\* C29 as stated: a batch commit updates only rows the user edited: a
\* canonical update that changes a row's fields after the draft was
\* materialized does not by itself turn hasChanges from false to true (and so
\* does not get the row sent in updates with its old values).
C29_CanonicalUpdateKeepsDraftClean ==
    [][(TechFieldsRefreshed /\ ~hasTechChanges) =>
          ~TechDraftDiffers(techDraftItems', technologies')]_vars

\* reached: a request in flight carries an update although the only thing the
\* user did to the draft was to toggle a card
C29_Witness ==
    /\ techEdits = 1
    /\ createdTempIds = 0
    /\ techInFlight # <<>>
    /\ techInFlight[Len(techInFlight)].updates # <<>>
    /\ \A i \in DOMAIN Unwrap(techDraftItems) : ~Unwrap(techDraftItems)[i]._isDeleted

\* TechDraftDiffers is hasTechChanges
TechDraftDiffersIsHasTechChanges == hasTechChanges <=> TechDraftDiffers(techDraftItems, technologies)

\* ------------------------------------------------------------ shape of the batch draft
\* C30: in every reachable state of the batch draft (any sequence of add,
\* update-field, toggle-expand, delete, reset, save and canonical updates) no
\* row is both _isNew and _isDeleted, every _isNew row has a temporary id and
\* every row with a temporary id is _isNew, and no two rows share an id.
C30_DraftRowsWellFormed ==
    techDraftItems # NULL =>
       \A i \in DOMAIN Unwrap(techDraftItems) :
          /\ ~(Unwrap(techDraftItems)[i]._isNew /\ Unwrap(techDraftItems)[i]._isDeleted)
          /\ Unwrap(techDraftItems)[i]._isNew <=> IsTempId(Unwrap(techDraftItems)[i]._id)
          /\ \A j \in DOMAIN Unwrap(techDraftItems) :
                Unwrap(techDraftItems)[i]._id = Unwrap(techDraftItems)[j]._id => i = j

\* reached: a draft that holds a tombstone of a canonical row next to two new
\* rows, after one new row was deleted again
C30_Witness ==
    /\ techDraftItems # NULL
    /\ createdTempIds = 3
    /\ \E i \in DOMAIN Unwrap(techDraftItems) : Unwrap(techDraftItems)[i]._isDeleted
    /\ Cardinality({i \in DOMAIN Unwrap(techDraftItems) : Unwrap(techDraftItems)[i]._isNew}) = 2

====
